---- MODULE Spec2Model ----
(***************************************************************************)
(* Intrascale: one node's ConnectionManager (peer table, handshakes),      *)
(* ResourceManager (submit_task, scheduling, assignment, per-task          *)
(* monitors) and the part of the TaskExecutor read loop that touches the   *)
(* peer records, together with the remote ends of the peer links.          *)
(*                                                                         *)
(* ResourceManager calls connection_manager._send_message,                 *)
(* connection_manager._receive_message and conn.socket; connection.py      *)
(* defines none of them (it has _send_message_async,                       *)
(* _receive_message_async, reader and writer).  They are modelled from     *)
(* spec.md section 4.3 (framed send and receive on the record's            *)
(* transport); everything else is translated from the sources.             *)
(***************************************************************************)
EXTENDS Integers, Sequences, FiniteSets, TLC

\* ---------------------------------------------------------------- bounds
MaxLinks == 2
MaxCalls == 2
MaxPolls == 1
MaxQueue == 2
\* The frames one activity writes on the link whose bytes are followed.
MaxWrites == 1
\* The calls of NodeDiscovery.start().
MaxStarts == 2
\* The peer links of the task-exchange specification.
MaxTaskLinks == 1
\* The task frames a peer sends to this node's executor.
MaxFrames == 2

\* ------------------------------------------------------------- constants
\* Python None in a numeric field (Task.result, a missing hardware value).
None == -1
\* The capacity limit of _find_available_node.
Limit == 100

Hosts == {"b", "c"}
NoHost == "none"
\* hardware_info values a handshake can carry (None: the key is missing).
HwSet == {[cpu |-> None, mem |-> None], [cpu |-> 60, mem |-> 60]}
\* <<required_cpu, required_memory>> of a submission.
Reqs == {<<0, 0>>, <<50, 0>>, <<0, 50>>}
\* The positional argument of the t-th submit_task call.
Args(t) == 4 + t
\* The handler the examples register.
example_task(x) == x * x

VARIABLES links, connections, exec_running, tasks, objs, calls, mons, handlers,
          scan, wire, disc, inflight, stopped, query, app

vars == <<links, connections, exec_running, tasks, objs, calls, mons, handlers,
          scan, wire, disc, inflight, stopped, query, app>>

\* ------------------------------------------------------------ peer table
LinkIds == 1..Len(links)

\* dict lookup self.connections.get(hostname): the link id, 0 when absent.
Lookup(h) ==
    IF \E i \in 1..Len(connections) : links[connections[i]].host = h
    THEN connections[CHOOSE i \in 1..Len(connections) : links[connections[i]].host = h]
    ELSE 0

\* self.connections[hostname] = NodeConnection(...): a key already present
\* keeps its position, a new key goes last.
Install(l, h) ==
    IF \E i \in 1..Len(connections) : links[connections[i]].host = h
    THEN [i \in 1..Len(connections) |->
            IF links[connections[i]].host = h THEN l ELSE connections[i]]
    ELSE Append(connections, l)

InTable(l) == \E i \in 1..Len(connections) : connections[i] = l

\* A new transport.  first_wr: the first frame this node wrote on it ("failed":
\* the handshake write was attempted and raised); first_rd: the first frame
\* this node read on it.
NewLink(d, h, st, wr, alive) ==
    [dir |-> d, host |-> h, st |-> st, first_wr |-> wr,
     first_rd |-> "none", open |-> TRUE, alive |-> alive,
     hw |-> [cpu |-> None, mem |-> None], active |-> TRUE,
     outq |-> <<>>, inq |-> <<>>]

\* What a first frame is recorded as.
RdKind(f) == IF f.kind = "handshake" /\ f.host = NoHost THEN "handshake_nohost" ELSE f.kind

Handshaken(l) == links[l].first_rd \in {"handshake", "handshake_nohost"}

\* What the first read on a new link can return.
FirstFrames ==
    {[kind |-> "absent", hw |-> [cpu |-> None, mem |-> None], host |-> NoHost],
     [kind |-> "other", hw |-> [cpu |-> None, mem |-> None], host |-> NoHost]}
    \cup {[kind |-> "handshake", hw |-> hw, host |-> h] : hw \in HwSet, h \in Hosts \cup {NoHost}}

\* The last status query and what it returned: res is <<>> for None, else the
\* dicts returned.
NoQuery == [op |-> "none", id |-> None, res |-> <<>>]

\* The position of _listen_for_tasks: at the top of its while loop, or at the
\* i-th record of the snapshot get_connected_nodes() returned for this pass.
ScanTop == [pc |-> "top", snap |-> <<>>, i |-> 0]

\* The bytes on the socket of a peer link below the frame level.  bytes: the
\* pieces written so far, <<writer, n, k>> being piece k of the n-th frame of
\* that writer (piece 1: the 4-byte length and the payload up to where the
\* first send stopped; piece 2: the rest of the payload).  buf: the write
\* buffer of the asyncio transport.  mutex: the holder of the per-link write
\* mutex.  sent: frames started per writer.
NoWire ==
    [bytes |-> <<>>, buf |-> <<>>, mutex |-> "none",
     sent |-> [w \in {"assign", "monitor", "reply"} |-> 0]]
\* NodeDiscovery(): _running is False, nodes is empty, no thread exists.
\* threads: the threads start() created, in order; marked: the thread was in
\* its loop when stop() was called; why: what made it leave its loop.
NewDiscovery ==
    [running |-> FALSE, nodes |-> {}, threads |-> <<>>, starts |-> 0, stops |-> 0]

\* Intrascale(): start() has not been called; pc is the line start() is at,
\* rm whether resource_manager was created, todo the discovered nodes the
\* connect loop has still to visit, tried the nodes connect_to_node was
\* called for.
NewApp == [pc |-> "new", rm |-> FALSE, todo |-> {}, tried |-> {}]

Init ==
    /\ links = <<>>
    /\ connections = <<>>
    /\ exec_running = FALSE
    /\ tasks = <<>>
    /\ objs = <<>>
    /\ calls = <<>>
    /\ mons = <<>>
    /\ handlers = <<>>
    /\ scan = ScanTop
    /\ wire = NoWire
    /\ disc = NewDiscovery
    /\ inflight = {}
    /\ stopped = FALSE
    /\ query = NoQuery
    /\ app = NewApp

\* -------------------------------------------------- ConnectionManager
\* connect_to_node up to its first await on the reply: open the link, write
\* the handshake (_send_message_async logs and swallows a send error).
ConnectOpen(h, sendok) ==
    /\ Len(links) < MaxLinks
    /\ links' = Append(links,
                  NewLink("out", h, "wait_reply",
                          IF sendok THEN "handshake" ELSE "failed", sendok))
    /\ UNCHANGED <<connections, exec_running, tasks, objs, calls, mons, handlers,
                 scan, wire, disc, inflight, stopped, query, app>>

\* connect_to_node testing only that a reply arrived, not its type.
ConnectAcceptsAnyReply(f) == f.kind # "absent"

\* The install test of connect_to_node.
ConnectAccepts(f) == f.kind = "handshake"

\* connect_to_node after the reply was read: install the record under the
\* supplied hostname, or return False (the writer is left as it is).
ConnectReply(l, f) ==
    /\ l \in LinkIds
    /\ links[l].dir = "out" /\ links[l].st = "wait_reply"
    /\ (~links[l].alive => f.kind = "absent")
    /\ links' = [links EXCEPT ![l] =
                   [@ EXCEPT !.st = "done", !.first_rd = RdKind(f),
                             !.alive = @ /\ f.kind # "absent",
                             !.hw = IF ConnectAccepts(f) THEN f.hw ELSE @]]
    /\ connections' = IF ConnectAccepts(f) THEN Install(l, links[l].host)
                      ELSE connections
    /\ UNCHANGED <<exec_running, tasks, objs, calls, mons, handlers,
                 scan, wire, disc, inflight, stopped, query, app>>

\* The server accepted a socket: _handle_incoming_connection starts.
AcceptConn ==
    /\ Len(links) < MaxLinks
    /\ links' = Append(links, NewLink("in", NoHost, "wait_first", "none", TRUE))
    /\ UNCHANGED <<connections, exec_running, tasks, objs, calls, mons, handlers,
                 scan, wire, disc, inflight, stopped, query, app>>

\* The install test of _handle_incoming_connection.
AcceptAccepts(f) == f.kind = "handshake" /\ f.host # NoHost

\* _handle_incoming_connection after its first read: install the record under
\* the hostname of the handshake.
AcceptFirst(l, f) ==
    /\ l \in LinkIds
    /\ links[l].dir = "in" /\ links[l].st = "wait_first"
    /\ (~links[l].alive => f.kind = "absent")
    /\ links' = [links EXCEPT ![l] =
                   [@ EXCEPT !.st = IF AcceptAccepts(f) THEN "installed" ELSE "closing",
                             !.first_rd = RdKind(f),
                             !.alive = @ /\ f.kind # "absent",
                             !.host = IF AcceptAccepts(f) THEN f.host ELSE @,
                             !.hw = IF AcceptAccepts(f) THEN f.hw ELSE @]]
    /\ connections' = IF AcceptAccepts(f) THEN Install(l, f.host) ELSE connections
    /\ UNCHANGED <<exec_running, tasks, objs, calls, mons, handlers,
                 scan, wire, disc, inflight, stopped, query, app>>

\* _handle_incoming_connection sends its own handshake (errors swallowed).
AcceptReply(l) ==
    /\ l \in LinkIds
    /\ links[l].st = "installed"
    /\ links' = [links EXCEPT ![l] =
                   [@ EXCEPT !.st = "closing",
                             !.first_wr = IF @ # "none" THEN @
                                          ELSE IF links[l].open /\ links[l].alive
                                          THEN "handshake" ELSE "failed"]]
    /\ UNCHANGED <<connections, exec_running, tasks, objs, calls, mons, handlers,
                 scan, wire, disc, inflight, stopped, query, app>>

\* finally: writer.close() of _handle_incoming_connection.
AcceptClose(l) ==
    /\ l \in LinkIds
    /\ links[l].st = "closing"
    /\ links' = [links EXCEPT ![l] = [@ EXCEPT !.st = "done", !.open = FALSE]]
    /\ UNCHANGED <<connections, exec_running, tasks, objs, calls, mons, handlers,
                 scan, wire, disc, inflight, stopped, query, app>>

\* stop() whose loop is left by the first writer that fails to close: only
\* the first record's writer is closed before the table is cleared.
StopLeavesLoop ==
    /\ connections # <<>>
    /\ links' = [links EXCEPT ![connections[1]].open = FALSE]
    /\ connections' = <<>>
    /\ stopped' = TRUE
    /\ UNCHANGED <<exec_running, tasks, objs, calls, mons, handlers,
                 scan, wire, disc, inflight, query, app>>

\* ConnectionManager.stop: close the writer of every record, clear the table.
\* stopped records that stop() has returned; the server is not closed.
Stop ==
    /\ connections # <<>>
    /\ links' = [l \in LinkIds |->
                   IF InTable(l) THEN [links[l] EXCEPT !.open = FALSE] ELSE links[l]]
    /\ connections' = <<>>
    /\ stopped' = TRUE
    /\ UNCHANGED <<exec_running, tasks, objs, calls, mons, handlers,
                 scan, wire, disc, inflight, query, app>>

\* The remote end dies or resets the link.
LinkFail(l) ==
    /\ l \in LinkIds
    /\ links[l].alive /\ Handshaken(l)
    /\ links' = [links EXCEPT ![l] = [@ EXCEPT !.alive = FALSE]]
    /\ UNCHANGED <<connections, exec_running, tasks, objs, calls, mons, handlers,
                 scan, wire, disc, inflight, stopped, query, app>>

\* ------------------------------------------------ transport (sync calls)
\* connection_manager._send_message(conn.socket, msg) returns (does not raise):
\* the local writer is open and the link has not failed.
CanSend(l) == links[l].open /\ links[l].alive

\* The record's transport after frame f was written on it.
SendOn(lk, f) ==
    [lk EXCEPT !.outq = Append(@, f),
               !.first_wr = IF @ = "none" THEN f.type ELSE @]

\* connection_manager._receive_message(conn.socket) has a frame to return.
RecvReady(l) == links[l].inq # <<>>

\* connection_manager._receive_message(conn.socket) raises: nothing is
\* buffered and the transport is closed or failed.
RecvRaises(l) == links[l].inq = <<>> /\ (~links[l].open \/ ~links[l].alive)

\* Frames: err is the 'error' text of a task_status frame ("none": no such key).
TaskFrame(o) ==
    [type |-> "task", task_id |-> objs[o].id, status |-> "none", val |-> objs[o].arg,
     err |-> "none"]
PollFrame(id) ==
    [type |-> "task_status", task_id |-> id, status |-> "none", val |-> None,
     err |-> "none"]
AckFrame(id) ==
    [type |-> "task_status", task_id |-> id, status |-> "acknowledged", val |-> None,
     err |-> "none"]

\* ----------------------------------------------------- ResourceManager
\* Task(...): the dataclass with its defaults.
NewTask(id, arg, req) ==
    [id |-> id, arg |-> arg, cpu |-> req[1], mem |-> req[2],
     status |-> "pending", result |-> None, assigned_node |-> NoHost]

\* hw_info.get(key, 0)
Get(v) == IF v = None THEN 0 ELSE v

\* The test of one peer record in _find_available_node.
Fits(l, cpu, mem) ==
    /\ links[l].active
    /\ Get(links[l].hw.cpu) + cpu <= Limit
    /\ Get(links[l].hw.mem) + mem <= Limit

\* _find_available_node returning the last record that passes.
FindLastAvailableNode(cpu, mem) ==
    IF \E i \in 1..Len(connections) : Fits(connections[i], cpu, mem)
    THEN LET i == CHOOSE i \in 1..Len(connections) :
                    /\ Fits(connections[i], cpu, mem)
                    /\ \A j \in (i + 1)..Len(connections) : ~Fits(connections[j], cpu, mem)
         IN links[connections[i]].host
    ELSE NoHost

\* _find_available_node: the first record, in table order, that passes.
FindAvailableNode(cpu, mem) ==
    IF \E i \in 1..Len(connections) : Fits(connections[i], cpu, mem)
    THEN LET i == CHOOSE i \in 1..Len(connections) :
                    /\ Fits(connections[i], cpu, mem)
                    /\ \A j \in 1..(i - 1) : ~Fits(connections[j], cpu, mem)
         IN links[connections[i]].host
    ELSE NoHost

\* f"task_{len(self.tasks)}"
NextTaskId == Len(tasks)

\* submit_task up to the lock: the id is computed and the Task built.
SubmitBegin(req) ==
    /\ Len(calls) < MaxCalls
    /\ calls' = Append(calls, [pc |-> "install", task_id |-> NextTaskId, node |-> NoHost,
                               obj |-> 0])
    /\ objs' = Append(objs, NewTask(NextTaskId, Args(Len(calls) + 1), req))
    /\ mons' = Append(mons, [pc |-> "none", obj |-> 0, link |-> 0, polls |-> 0,
                             got |-> None])
    /\ UNCHANGED <<links, connections, exec_running, tasks, handlers,
                 scan, wire, disc, inflight, stopped, query, app>>

\* with self._lock: self.tasks[task_id] = task
SubmitInstall(t) ==
    /\ t \in 1..Len(calls)
    /\ calls[t].pc = "install"
    /\ tasks' = IF calls[t].task_id < Len(tasks)
                THEN [tasks EXCEPT ![calls[t].task_id + 1] = t]
                ELSE Append(tasks, t)
    /\ calls' = [calls EXCEPT ![t].pc = "schedule"]
    /\ UNCHANGED <<links, connections, exec_running, objs, mons, handlers,
                 scan, wire, disc, inflight, stopped, query, app>>

\* _schedule_task: look the task up by id, return unless pending, pick a node.
ScheduleTask(t) ==
    /\ t \in 1..Len(calls)
    /\ calls[t].pc = "schedule"
    /\ LET o == tasks[calls[t].task_id + 1]
           n == FindAvailableNode(objs[o].cpu, objs[o].mem)
       IN IF objs[o].status # "pending"
          THEN calls' = [calls EXCEPT ![t].pc = "done"]
          ELSE IF n = NoHost
          THEN calls' = [calls EXCEPT ![t].pc = "no_node", ![t].obj = o]
          ELSE calls' = [calls EXCEPT ![t].pc = "assign", ![t].obj = o, ![t].node = n]
    /\ UNCHANGED <<links, connections, exec_running, tasks, objs, mons, handlers,
                 scan, wire, disc, inflight, stopped, query, app>>

\* _assign_task_to_node up to the send: look the task and the record up again,
\* send the task frame; a send that raises marks the task failed.
AssignSend(t) ==
    /\ t \in 1..Len(calls)
    /\ calls[t].pc = "assign"
    /\ LET o == tasks[calls[t].task_id + 1]
           l == Lookup(calls[t].node)
       IN IF l = 0
          THEN /\ calls' = [calls EXCEPT ![t].pc = "no_conn"]
               /\ UNCHANGED <<links, objs>>
          ELSE IF CanSend(l)
          THEN /\ links' = [links EXCEPT ![l] = SendOn(@, TaskFrame(o))]
               /\ objs' = objs
               /\ calls' = [calls EXCEPT ![t].pc = "set_running", ![t].obj = o]
          ELSE /\ objs' = [objs EXCEPT ![o].status = "failed"]
               /\ calls' = [calls EXCEPT ![t].pc = "send_failed", ![t].obj = o]
               /\ links' = links
    /\ UNCHANGED <<connections, exec_running, tasks, mons, handlers,
                 scan, wire, disc, inflight, stopped, query, app>>

\* task.status = "running"
AssignSetRunning(t) ==
    /\ t \in 1..Len(calls)
    /\ calls[t].pc = "set_running"
    /\ objs' = [objs EXCEPT ![calls[t].obj].status = "running"]
    /\ calls' = [calls EXCEPT ![t].pc = "set_node"]
    /\ UNCHANGED <<links, connections, exec_running, tasks, mons, handlers,
                 scan, wire, disc, inflight, stopped, query, app>>

\* task.assigned_node = node_hostname, then the monitor thread is started.
AssignSetNode(t) ==
    /\ t \in 1..Len(calls)
    /\ calls[t].pc = "set_node"
    /\ objs' = [objs EXCEPT ![calls[t].obj].assigned_node = calls[t].node]
    /\ calls' = [calls EXCEPT ![t].pc = "assigned"]
    /\ mons' = [mons EXCEPT ![t].pc = "start"]
    /\ UNCHANGED <<links, connections, exec_running, tasks, handlers,
                 scan, wire, disc, inflight, stopped, query, app>>

\* _monitor_task before its loop: look up the task and its peer record.
MonitorStart(t) ==
    /\ t \in 1..Len(mons)
    /\ mons[t].pc = "start"
    /\ LET o == tasks[calls[t].task_id + 1]
           l == Lookup(objs[o].assigned_node)
       IN IF objs[o].assigned_node = NoHost \/ l = 0
          THEN mons' = [mons EXCEPT ![t].pc = "done"]
          ELSE mons' = [mons EXCEPT ![t].pc = "poll", ![t].obj = o, ![t].link = l]
    /\ UNCHANGED <<links, connections, exec_running, tasks, objs, calls, handlers,
                 scan, wire, disc, inflight, stopped, query, app>>

\* One pass of the monitor loop up to the read: test the status, send a poll.
MonitorPoll(t) ==
    /\ t \in 1..Len(mons)
    /\ mons[t].pc = "poll"
    /\ LET o == mons[t].obj
           l == mons[t].link
       IN IF objs[o].status # "running"
          THEN /\ mons' = [mons EXCEPT ![t].pc = "done"]
               /\ UNCHANGED <<links, objs>>
          ELSE IF ~CanSend(l)
          THEN /\ mons' = [mons EXCEPT ![t].pc = "done"]
               /\ objs' = [objs EXCEPT ![o].status = "failed"]
               /\ links' = links
          ELSE /\ mons[t].polls < MaxPolls
               /\ links' = [links EXCEPT ![l] = SendOn(@, PollFrame(calls[t].task_id))]
               /\ mons' = [mons EXCEPT ![t].pc = "recv", ![t].polls = @ + 1]
               /\ objs' = objs
    /\ UNCHANGED <<connections, exec_running, tasks, calls, handlers,
                 scan, wire, disc, inflight, stopped, query, app>>

\* The task record after the monitor read reply f.
MonitorApply(tk, f) ==
    IF f.type = "task_status" /\ f.status = "completed"
    THEN [tk EXCEPT !.status = "completed", !.result = f.val]
    ELSE IF f.type = "task_status" /\ f.status = "failed"
    THEN [tk EXCEPT !.status = "failed"]
    ELSE tk

\* The reply ends the monitor loop (break).
MonitorBreaks(f) == f.type = "task_status" /\ f.status \in {"completed", "failed"}

\* The read of the monitor loop: one reply, or the exception of a dead link.
\* got records the task_id of the reply that ended the loop.
MonitorRecv(t) ==
    /\ t \in 1..Len(mons)
    /\ mons[t].pc = "recv"
    /\ LET o == mons[t].obj
           l == mons[t].link
           f == Head(links[l].inq)
       IN \/ /\ RecvReady(l)
             /\ links' = [links EXCEPT ![l].inq = Tail(@)]
             /\ objs' = [objs EXCEPT ![o] = MonitorApply(@, f)]
             /\ mons' = [mons EXCEPT ![t].pc = IF MonitorBreaks(f) THEN "done" ELSE "poll",
                                     ![t].got = IF MonitorBreaks(f) THEN f.task_id ELSE @]
          \/ /\ RecvRaises(l)
             /\ objs' = [objs EXCEPT ![o].status = "failed"]
             /\ mons' = [mons EXCEPT ![t].pc = "raised"]
             /\ links' = links
    /\ UNCHANGED <<connections, exec_running, tasks, calls, handlers,
                 scan, wire, disc, inflight, stopped, query, app>>

\* get_task_status(f"task_{i - 1}")["status"]
StatusOf(i) == objs[tasks[i]].status

\* get_task_status(f"task_{i - 1}"): the dict it returns.
get_task_status(i) ==
    [status |-> objs[tasks[i]].status, result |-> objs[tasks[i]].result,
     assigned_node |-> objs[tasks[i]].assigned_node]

\* get_task_status(f"task_{id}") called by the user: self.tasks.get(task_id),
\* None when the id is not a key of the table.
GetTaskStatus(id) ==
    /\ query' = [op |-> "get_task_status", id |-> id,
                 res |-> IF id < Len(tasks) THEN <<get_task_status(id + 1)>> ELSE <<>>]
    /\ tasks' = tasks
    /\ UNCHANGED <<links, connections, exec_running, objs, calls, mons, handlers,
                 scan, wire, disc, inflight, stopped, app>>

\* get_all_tasks(): get_task_status of every key of the table.
GetAllTasks ==
    /\ query' = [op |-> "get_all_tasks", id |-> None,
                 res |-> [i \in 1..Len(tasks) |-> get_task_status(i)]]
    /\ UNCHANGED <<links, connections, exec_running, tasks, objs, calls, mons, handlers,
                 scan, wire, disc, inflight, stopped, app>>

\* ------------------------------------------------------- remote worker
\* outq without its i-th frame.
Without(q, i) == [j \in 1..(Len(q) - 1) |-> IF j < i THEN q[j] ELSE q[j + 1]]

\* The peer's executor has read the frames before the i-th one: its reader
\* takes frames in order and does not wait for the handlers it started.
WorkerReached(l, i) ==
    /\ i \in 1..Len(links[l].outq)
    /\ \A j \in 1..(i - 1) : links[l].outq[j].type = "task"

\* The terminal reply of the peer's _handle_task for task frame f.
WorkerReplyFrame(f, st) ==
    [type |-> "task_status", task_id |-> f.task_id, status |-> st,
     val |-> IF st = "completed" THEN example_task(f.val) ELSE None,
     err |-> IF st = "failed" THEN "Insufficient resources" ELSE "none"]

\* The peer's handler for the i-th frame, a task, ends: it returned
\* (completed) or the task was refused or raised (failed).
WorkerFinish(l, i, st) ==
    /\ l \in LinkIds
    /\ links[l].alive /\ WorkerReached(l, i)
    /\ links[l].outq[i].type = "task"
    /\ Len(links[l].inq) < MaxQueue
    /\ links' = [links EXCEPT ![l].outq = Without(@, i),
                              ![l].inq = Append(@, WorkerReplyFrame(links[l].outq[i], st))]
    /\ UNCHANGED <<connections, exec_running, tasks, objs, calls, mons, handlers,
                 scan, wire, disc, inflight, stopped, query, app>>

\* The peer's _handle_status_request answers a task_status frame.
WorkerAck(l, i) ==
    /\ l \in LinkIds
    /\ links[l].alive /\ WorkerReached(l, i)
    /\ links[l].outq[i].type = "task_status"
    /\ Len(links[l].inq) < MaxQueue
    /\ links' = [links EXCEPT ![l].outq = Without(@, i),
                              ![l].inq = Append(@, AckFrame(links[l].outq[i].task_id))]
    /\ UNCHANGED <<connections, exec_running, tasks, objs, calls, mons, handlers,
                 scan, wire, disc, inflight, stopped, query, app>>

\* ------------------------------------------------------- TaskExecutor
\* TaskExecutor.start sets _running.
ExecutorStart ==
    /\ ~exec_running
    /\ exec_running' = TRUE
    /\ UNCHANGED <<links, connections, tasks, objs, calls, mons, handlers,
                 scan, wire, disc, inflight, stopped, query, app>>

\* _listen_for_tasks on one record of the snapshot, when the frame it reads is
\* a task frame without its data: the exception handler clears is_active.
ListenMalformed(l) ==
    /\ exec_running
    /\ l \in LinkIds /\ InTable(l)
    /\ links[l].active /\ links[l].alive
    /\ links' = [links EXCEPT ![l].active = FALSE]
    /\ UNCHANGED <<connections, exec_running, tasks, objs, calls, mons, handlers,
                 scan, wire, disc, inflight, stopped, query, app>>

\* _listen_for_tasks on one record of the snapshot, when a frame is waiting on
\* it: every frame the peer writes on a link this node submitted on is a
\* task_status frame, so _handle_status_request answers it (a send error is
\* swallowed by _send_message_async).
ListenRecv(l) ==
    /\ exec_running
    /\ l \in LinkIds /\ InTable(l)
    /\ links[l].active /\ RecvReady(l)
    /\ Head(links[l].inq).type = "task_status"
    /\ Len(links[l].outq) < MaxQueue
    /\ LET f == Head(links[l].inq)
           lk == [links[l] EXCEPT !.inq = Tail(@)]
       IN links' = [links EXCEPT ![l] =
                      IF CanSend(l) THEN SendOn(lk, AckFrame(f.task_id)) ELSE lk]
    /\ UNCHANGED <<connections, exec_running, tasks, objs, calls, mons, handlers,
                 scan, wire, disc, inflight, stopped, query, app>>

\* ------------------------------------------ TaskExecutor: task frames
\* The names in _task_handlers, and a name that is not registered.
Registered == {"example_task"}
FnNames == {"example_task", "other_task"}
\* What get_resource_usage can report when a task is checked.
UsageSet == {[cpu |-> 10, mem |-> 10], [cpu |-> 60, mem |-> 60]}
\* How a handler running in the pool can end: it returns a value json.dumps
\* encodes, returns one it cannot encode, or raises.
Outcomes == {"return", "unencodable", "raise"}

\* A task frame as a peer's _assign_task_to_node writes it: kw is TRUE when
\* kwargs is not empty.
InboundTask(id, fn, kw, req) ==
    [type |-> "task", task_id |-> id, fn |-> fn, arg |-> 5 + id, kw |-> kw,
     cpu |-> req[1], mem |-> req[2]]

\* The message of a task_status reply.
StatusFrame(id, st, val, err) ==
    [type |-> "task_status", task_id |-> id, status |-> st, val |-> val, err |-> err]

NoReply == [status |-> "none", val |-> None, err |-> "none"]

\* A _handle_task coroutine created for task frame f read on link l.  usage:
\* the usage the resource check saw; checked: is_resource_available was
\* called; invoked: the handler was called; reply: the message handed to
\* _send_message_async; wrote: the reply was written on the link.
NewHandler(l, f) ==
    [link |-> l, frame |-> f, pc |-> "start", usage |-> [cpu |-> 0, mem |-> 0],
     checked |-> FALSE, invoked |-> FALSE, outcome |-> "none",
     reply |-> NoReply, wrote |-> FALSE]

\* HardwareInfo.is_resource_available
is_resource_available(usage, required_cpu, required_memory) ==
    /\ usage.cpu + required_cpu <= Limit
    /\ usage.mem + required_memory <= Limit

\* str(ValueError(f"Unknown function: {function_name}"))
UnknownFunction(name) == "Unknown function: " \o name

\* _handle_task running the resource check before it looks the name up.
AdmitChecksResourcesFirst(f, usage) ==
    IF ~is_resource_available(usage, f.cpu, f.mem)
    THEN [checked |-> TRUE, invoked |-> FALSE, err |-> "Insufficient resources"]
    ELSE IF f.fn \notin Registered
    THEN [checked |-> TRUE, invoked |-> FALSE, err |-> UnknownFunction(f.fn)]
    ELSE IF f.kw
    THEN [checked |-> TRUE, invoked |-> FALSE,
          err |-> "run_in_executor() got an unexpected keyword argument"]
    ELSE [checked |-> TRUE, invoked |-> TRUE, err |-> "none"]

\* _handle_task from its first line to the await on the pool: what it
\* checked, whether the handler was submitted, and the text of the exception
\* raised instead.  loop.run_in_executor(None, function, *args, **kwargs)
\* takes no keyword arguments: with a non-empty kwargs it raises TypeError
\* before the handler is called.
Admit(f, usage) ==
    IF f.fn \notin Registered
    THEN [checked |-> FALSE, invoked |-> FALSE, err |-> UnknownFunction(f.fn)]
    ELSE IF ~is_resource_available(usage, f.cpu, f.mem)
    THEN [checked |-> TRUE, invoked |-> FALSE, err |-> "Insufficient resources"]
    ELSE IF f.kw
    THEN [checked |-> TRUE, invoked |-> FALSE,
          err |-> "run_in_executor() got an unexpected keyword argument"]
    ELSE [checked |-> TRUE, invoked |-> TRUE, err |-> "none"]

\* _send_message_async on the link writes the frame: the writer is open, the
\* link has not failed and json.dumps encodes the message.
WriteOk(l, enc) == links[l].open /\ links[l].alive /\ enc

\* self._tasks[task_id] = task, for the coroutine that is handlers[h].
Put(m, id, h) == {p \in m : p[1] # id} \cup {<<id, h>>}

\* self._tasks.pop(task_id, None)
Pop(m, id) == {p \in m : p[1] # id}

\* The task frames the peer on link l has sent so far: each submitter numbers
\* its tasks from task_0 (f"task_{len(self.tasks)}").
SentOn(l) ==
    Cardinality({h \in 1..Len(handlers) : handlers[h].link = l}) + Len(links[l].inq)

\* The peer's scheduler sends a task frame on link l.
PeerTask(l, fn, kw, req) ==
    /\ l \in LinkIds
    /\ links[l].alive /\ Handshaken(l) /\ links[l].st = "done"
    /\ Len(links[l].inq) < MaxQueue
    /\ Len(handlers) + Len(links[l].inq) < MaxFrames
    /\ links' = [links EXCEPT ![l].inq = Append(@, InboundTask(SentOn(l), fn, kw, req))]
    /\ UNCHANGED <<connections, exec_running, tasks, objs, calls, mons, handlers,
                 scan, wire, disc, inflight, stopped, query, app>>

\* _listen_for_tasks awaiting _handle_task inline: no frame of the link is
\* read while a handler started for it has not finished.
ListenTaskAwaitsHandler(l) ==
    /\ exec_running
    /\ l \in LinkIds /\ InTable(l)
    /\ links[l].active /\ RecvReady(l)
    /\ Head(links[l].inq).type = "task"
    /\ \A h \in 1..Len(handlers) : handlers[h].link = l => handlers[h].pc = "done"
    /\ links' = [links EXCEPT ![l].inq = Tail(@)]
    /\ handlers' = Append(handlers, NewHandler(l, Head(links[l].inq)))
    /\ inflight' = Put(inflight, Head(links[l].inq).task_id, Len(handlers) + 1)
    /\ UNCHANGED <<connections, exec_running, tasks, objs, calls, mons,
                 scan, wire, disc, stopped, query, app>>

\* _listen_for_tasks reads a task frame on one record of the snapshot and
\* creates the _handle_task coroutine for it; it does not await it.
ListenTask(l) ==
    /\ exec_running
    /\ l \in LinkIds /\ InTable(l)
    /\ links[l].active /\ RecvReady(l)
    /\ Head(links[l].inq).type = "task"
    /\ links' = [links EXCEPT ![l].inq = Tail(@)]
    /\ handlers' = Append(handlers, NewHandler(l, Head(links[l].inq)))
    /\ inflight' = Put(inflight, Head(links[l].inq).task_id, Len(handlers) + 1)
    /\ UNCHANGED <<connections, exec_running, tasks, objs, calls, mons,
                 scan, wire, disc, stopped, query, app>>

\* _handle_task up to its first await: the handler goes to the pool, or the
\* exception raised instead is answered with a failed reply and the finally
\* clause pops the task id from _tasks.
HandleStart(h, usage) ==
    /\ h \in 1..Len(handlers)
    /\ handlers[h].pc = "start"
    /\ LET f == handlers[h].frame
           l == handlers[h].link
           a == Admit(f, usage)
       IN IF a.invoked
          THEN /\ handlers' = [handlers EXCEPT ![h] =
                                 [@ EXCEPT !.pc = "running", !.usage = usage,
                                           !.checked = a.checked, !.invoked = TRUE]]
               /\ links' = links
          ELSE /\ handlers' = [handlers EXCEPT ![h] =
                                 [@ EXCEPT !.pc = "done", !.usage = usage,
                                           !.checked = a.checked,
                                           !.reply = [status |-> "failed", val |-> None,
                                                      err |-> a.err],
                                           !.wrote = WriteOk(l, TRUE)]]
               /\ links' = IF WriteOk(l, TRUE)
                           THEN [links EXCEPT ![l] =
                                   SendOn(@, StatusFrame(f.task_id, "failed", None, a.err))]
                           ELSE links
    /\ inflight' = IF Admit(handlers[h].frame, usage).invoked THEN inflight
                   ELSE Pop(inflight, handlers[h].frame.task_id)
    /\ UNCHANGED <<connections, exec_running, tasks, objs, calls, mons,
                 scan, wire, disc, stopped, query, app>>

\* The message _handle_task hands to _send_message_async when the handler
\* ended with outcome o.
HandlerReply(f, o) ==
    IF o = "raise"
    THEN [status |-> "failed", val |-> None, err |-> "handler raised"]
    ELSE [status |-> "completed",
          val |-> IF o = "return" THEN example_task(f.arg) ELSE None, err |-> "none"]

\* The handler ends in the pool and _handle_task sends its reply; a send
\* error, json.dumps failing on the result included, is logged and swallowed
\* by _send_message_async.  The finally clause pops the task id from _tasks.
HandleFinish(h, o) ==
    /\ h \in 1..Len(handlers)
    /\ handlers[h].pc = "running"
    /\ LET f == handlers[h].frame
           l == handlers[h].link
           r == HandlerReply(f, o)
           ok == WriteOk(l, o # "unencodable")
       IN /\ handlers' = [handlers EXCEPT ![h] =
                            [@ EXCEPT !.pc = "done", !.outcome = o, !.reply = r,
                                      !.wrote = ok]]
          /\ links' = IF ok
                      THEN [links EXCEPT ![l] =
                              SendOn(@, StatusFrame(f.task_id, r.status, r.val, r.err))]
                      ELSE links
    /\ inflight' = Pop(inflight, handlers[h].frame.task_id)
    /\ UNCHANGED <<connections, exec_running, tasks, objs, calls, mons,
                 scan, wire, disc, stopped, query, app>>

\* TaskExecutor.stop: clear _running, cancel every task in _tasks and wait
\* for them.  A cancelled coroutine that is awaiting the pool leaves through
\* its finally clause, which pops its task id; one that has not yet taken its
\* first step is cancelled before it enters the try block and pops nothing.
ExecutorStop ==
    /\ exec_running
    /\ exec_running' = FALSE
    /\ handlers' = [h \in 1..Len(handlers) |->
                      IF <<handlers[h].frame.task_id, h>> \in inflight
                      THEN [handlers[h] EXCEPT !.pc = "cancelled"]
                      ELSE handlers[h]]
    /\ inflight' = {p \in inflight : handlers[p[2]].pc = "start"}
    /\ UNCHANGED <<links, connections, tasks, objs, calls, mons,
                 scan, wire, disc, stopped, query, app>>

\* --------------------------------------------------------- NodeDiscovery
\* The threads start() can have created.
ThreadIds == 1..(2 * MaxStarts)

\* What recvfrom can return: a presence datagram of a host, bytes that are
\* not JSON, JSON without a hostname key.
Datagrams ==
    {[kind |-> "presence", host |-> h] : h \in Hosts}
    \cup {[kind |-> "not_json", host |-> NoHost], [kind |-> "no_hostname", host |-> NoHost]}

\* addr[0] of a datagram sent by host h.
IpOf(h) == "ip_" \o h

NewThread(kind, pc) == [kind |-> kind, pc |-> pc, marked |-> FALSE, why |-> "none"]

\* The thread has not left its function.
Alive(th) == th.pc \notin {"ended", "died"}

\* A listener thread holds the UDP port.
Bound(th) == th.kind = "listener" /\ th.pc \in {"loop", "recv"}

\* start(): set _running, start a broadcaster thread and a listener thread.
DiscStart ==
    /\ disc.starts < MaxStarts
    /\ disc' = [disc EXCEPT !.running = TRUE, !.starts = @ + 1,
                            !.threads = @ \o <<NewThread("broadcaster", "loop"),
                                              NewThread("listener", "start")>>]
    /\ UNCHANGED <<links, connections, exec_running, tasks, objs, calls, mons, handlers,
                 scan, wire, inflight, stopped, query, app>>

\* stop(): clear _running.
DiscStop ==
    /\ disc.running
    /\ disc' = [disc EXCEPT !.running = FALSE, !.stops = @ + 1,
                            !.threads = [i \in 1..Len(@) |->
                                           [@[i] EXCEPT !.marked = @ \/ Alive(disc.threads[i])]]]
    /\ UNCHANGED <<links, connections, exec_running, tasks, objs, calls, mons, handlers,
                 scan, wire, inflight, stopped, query, app>>

\* broadcast_presence at its while test: the loop ends when _running is
\* False; otherwise the datagram is sent and the thread waits for the
\* interval, or sendto raises and the except clause breaks out of the loop.
BroadcastSend(i, ok) ==
    /\ i \in 1..Len(disc.threads)
    /\ disc.threads[i].kind = "broadcaster" /\ disc.threads[i].pc = "loop"
    /\ disc' = [disc EXCEPT !.threads[i] =
                   IF ~disc.running THEN [@ EXCEPT !.pc = "ended", !.why = "stop"]
                   ELSE IF ok THEN [@ EXCEPT !.pc = "wait"]
                   ELSE [@ EXCEPT !.pc = "ended", !.why = "send_error"]]
    /\ UNCHANGED <<links, connections, exec_running, tasks, objs, calls, mons, handlers,
                 scan, wire, inflight, stopped, query, app>>

\* threading.Event().wait(self.broadcast_interval) returns.
BroadcastWait(i) ==
    /\ i \in 1..Len(disc.threads)
    /\ disc.threads[i].kind = "broadcaster" /\ disc.threads[i].pc = "wait"
    /\ disc' = [disc EXCEPT !.threads[i].pc = "loop"]
    /\ UNCHANGED <<links, connections, exec_running, tasks, objs, calls, mons, handlers,
                 scan, wire, inflight, stopped, query, app>>

\* listen_for_nodes binds the port (no SO_REUSEADDR): bind raises outside the
\* try block when another listener of this object still holds the port.
ListenBind(i) ==
    /\ i \in 1..Len(disc.threads)
    /\ disc.threads[i].kind = "listener" /\ disc.threads[i].pc = "start"
    /\ disc' = [disc EXCEPT !.threads[i] =
                   IF \E j \in 1..Len(disc.threads) : Bound(disc.threads[j])
                   THEN [@ EXCEPT !.pc = "died", !.why = "bind_error"]
                   ELSE [@ EXCEPT !.pc = "loop"]]
    /\ UNCHANGED <<links, connections, exec_running, tasks, objs, calls, mons, handlers,
                 scan, wire, inflight, stopped, query, app>>

\* listen_for_nodes at its while test: the loop ends when _running is False,
\* otherwise the thread blocks in recvfrom.
ListenLoop(i) ==
    /\ i \in 1..Len(disc.threads)
    /\ disc.threads[i].kind = "listener" /\ disc.threads[i].pc = "loop"
    /\ disc' = [disc EXCEPT !.threads[i] =
                   IF ~disc.running THEN [@ EXCEPT !.pc = "ended", !.why = "stop"]
                   ELSE [@ EXCEPT !.pc = "recv"]]
    /\ UNCHANGED <<links, connections, exec_running, tasks, objs, calls, mons, handlers,
                 scan, wire, inflight, stopped, query, app>>

\* recvfrom returns datagram d: a presence datagram is added to nodes as
\* (hostname, sender ip); json.loads or node_info['hostname'] raising takes
\* the except clause, which breaks out of the loop.
ListenDatagram(i, d) ==
    /\ i \in 1..Len(disc.threads)
    /\ disc.threads[i].kind = "listener" /\ disc.threads[i].pc = "recv"
    /\ disc' = IF d.kind = "presence"
               THEN [disc EXCEPT !.nodes = @ \cup {<<d.host, IpOf(d.host)>>},
                                 !.threads[i].pc = "loop"]
               ELSE [disc EXCEPT !.threads[i].pc = "ended", !.threads[i].why = d.kind]
    /\ UNCHANGED <<links, connections, exec_running, tasks, objs, calls, mons, handlers,
                 scan, wire, inflight, stopped, query, app>>

\* The step of thread i that needs nothing from outside.
ThreadStep(i) ==
    \/ \E ok \in BOOLEAN : BroadcastSend(i, ok)
    \/ BroadcastWait(i)
    \/ ListenBind(i)
    \/ ListenLoop(i)

\* ------------------------------------------- the bytes of one peer link
\* The link whose bytes are followed, and the activities that write on it:
\* the thread in submit_task (_assign_task_to_node), a monitor thread
\* (_monitor_task) and the coroutines of the executor (_handle_task,
\* _handle_status_request) on the event loop.
WireLink == 1
ThreadWriters == {"assign", "monitor"}

\* Both pieces of the n-th frame of writer w.
Pieces(w, n) == <<<<w, n, 1>>, <<w, n, 2>>>>

\* _send_message(conn.socket, msg) in a thread: the frame goes out under the
\* per-link write mutex (spec.md section 5); whole is FALSE when the first
\* send took only part of the frame.
ThreadSend(w, whole) ==
    /\ WireLink \in LinkIds /\ InTable(WireLink) /\ CanSend(WireLink)
    /\ wire.mutex = "none" /\ wire.sent[w] < MaxWrites
    /\ wire' = [wire EXCEPT !.sent[w] = @ + 1,
                            !.mutex = IF whole THEN "none" ELSE w,
                            !.bytes = IF whole THEN @ \o Pieces(w, wire.sent[w] + 1)
                                      ELSE Append(@, <<w, wire.sent[w] + 1, 1>>)]
    /\ UNCHANGED <<links, connections, exec_running, tasks, objs, calls, mons, handlers,
                 scan, disc, inflight, stopped, query, app>>

\* The rest of the frame goes out and the mutex is released.
ThreadSendRest(w) ==
    /\ wire.mutex = w
    /\ wire' = [wire EXCEPT !.mutex = "none",
                            !.bytes = Append(@, <<w, wire.sent[w], 2>>)]
    /\ UNCHANGED <<links, connections, exec_running, tasks, objs, calls, mons, handlers,
                 scan, disc, inflight, stopped, query, app>>

\* _send_message_async: writer.write(length + data) takes no mutex.  With an
\* empty transport buffer the socket is written at once and what it did not
\* take is buffered; with a non-empty buffer the frame is appended to it.
LoopWrite(whole) ==
    /\ WireLink \in LinkIds /\ InTable(WireLink) /\ CanSend(WireLink)
    /\ wire.sent["reply"] < MaxWrites
    /\ LET n == wire.sent["reply"] + 1
       IN wire' = [wire EXCEPT
                     !.sent["reply"] = n,
                     !.bytes = IF wire.buf # <<>> THEN @
                               ELSE IF whole THEN @ \o Pieces("reply", n)
                               ELSE Append(@, <<"reply", n, 1>>),
                     !.buf = IF wire.buf # <<>> THEN @ \o Pieces("reply", n)
                             ELSE IF whole THEN @
                             ELSE <<<<"reply", n, 2>>>>]
    /\ UNCHANGED <<links, connections, exec_running, tasks, objs, calls, mons, handlers,
                 scan, disc, inflight, stopped, query, app>>

\* The event loop finds the socket writable and sends what is buffered.
LoopFlush ==
    /\ wire.buf # <<>>
    /\ wire' = [wire EXCEPT !.bytes = Append(@, Head(wire.buf)), !.buf = Tail(@)]
    /\ UNCHANGED <<links, connections, exec_running, tasks, objs, calls, mons, handlers,
                 scan, disc, inflight, stopped, query, app>>

\* ------------------------------- TaskExecutor: the read loop, in order
\* while self._running: a pass starts on a copy of the peer table.
ScanSnapshot ==
    /\ exec_running /\ scan.pc = "top"
    /\ scan' = [pc |-> "at", snap |-> connections, i |-> 1]
    /\ UNCHANGED <<links, connections, exec_running, tasks, objs, calls, mons, handlers,
                 wire, disc, inflight, stopped, query, app>>

\* The record the pass has reached (0: the for loop is through).
ScanAt == IF scan.pc = "at" /\ scan.i <= Len(scan.snap) THEN scan.snap[scan.i] ELSE 0

\* The pass goes on to the next record: this one is flagged not live, or its
\* read returned None (_receive_message_async logs the error of a closed or
\* failed transport and returns None).
ScanSkip ==
    /\ ScanAt # 0
    /\ ~links[ScanAt].active \/ RecvRaises(ScanAt)
    /\ scan' = [scan EXCEPT !.i = @ + 1]
    /\ UNCHANGED <<links, connections, exec_running, tasks, objs, calls, mons, handlers,
                 wire, disc, inflight, stopped, query, app>>

\* The awaited read on the record the pass has reached returns a task frame:
\* the _handle_task coroutine is created and the pass goes on.  While no
\* frame is buffered and the transport is healthy the await does not return.
ScanRead ==
    /\ ScanAt # 0
    /\ links[ScanAt].active /\ RecvReady(ScanAt)
    /\ Head(links[ScanAt].inq).type = "task"
    /\ links' = [links EXCEPT ![ScanAt].inq = Tail(@)]
    /\ handlers' = Append(handlers, NewHandler(ScanAt, Head(links[ScanAt].inq)))
    /\ inflight' = Put(inflight, Head(links[ScanAt].inq).task_id, Len(handlers) + 1)
    /\ scan' = [scan EXCEPT !.i = @ + 1]
    /\ UNCHANGED <<connections, exec_running, tasks, objs, calls, mons,
                 wire, disc, stopped, query, app>>

\* The awaited read returns a task_status frame: _handle_status_request
\* answers it and the pass goes on.
ScanAck ==
    /\ ScanAt # 0
    /\ links[ScanAt].active /\ RecvReady(ScanAt)
    /\ Head(links[ScanAt].inq).type = "task_status"
    /\ Len(links[ScanAt].outq) < MaxQueue
    /\ LET f == Head(links[ScanAt].inq)
           lk == [links[ScanAt] EXCEPT !.inq = Tail(@)]
       IN links' = [links EXCEPT ![ScanAt] =
                      IF CanSend(ScanAt) THEN SendOn(lk, AckFrame(f.task_id)) ELSE lk]
    /\ scan' = [scan EXCEPT !.i = @ + 1]
    /\ UNCHANGED <<connections, exec_running, tasks, objs, calls, mons, handlers,
                 wire, disc, inflight, stopped, query, app>>

\* ------------------------------------------------------------ Intrascale
\* socket.gethostname() of this node; its own broadcast reaches its listener.
SelfHost == "a"

\* recvfrom returns the node's own presence datagram: it is added to nodes
\* like any other.
ListenOwnDatagram(i) ==
    /\ i \in 1..Len(disc.threads)
    /\ disc.threads[i].kind = "listener" /\ disc.threads[i].pc = "recv"
    /\ disc' = [disc EXCEPT !.nodes = @ \cup {<<SelfHost, IpOf(SelfHost)>>},
                            !.threads[i].pc = "loop"]
    /\ UNCHANGED <<links, connections, exec_running, tasks, objs, calls, mons, handlers,
                 scan, wire, inflight, stopped, query, app>>

\* start() up to its first await: create the discovery service and start it
\* (_running set, a broadcaster and a listener thread).
AppDiscovery ==
    /\ app.pc = "new"
    /\ disc.starts < MaxStarts
    /\ disc' = [disc EXCEPT !.running = TRUE, !.starts = @ + 1,
                            !.threads = @ \o <<NewThread("broadcaster", "loop"),
                                              NewThread("listener", "start")>>]
    /\ app' = [app EXCEPT !.pc = "server"]
    /\ UNCHANGED <<links, connections, exec_running, tasks, objs, calls, mons, handlers,
                 scan, wire, inflight, stopped, query>>

\* await start_server_async(): asyncio.start_server binds the port or raises
\* (the exception leaves start(), which has no handler); once bound the
\* coroutine awaits serve_forever().
AppServe(bound) ==
    /\ app.pc = "server"
    /\ app' = [app EXCEPT !.pc = IF bound THEN "serving" ELSE "raised"]
    /\ UNCHANGED <<links, connections, exec_running, tasks, objs, calls, mons, handlers,
                 scan, wire, disc, inflight, stopped, query>>

\* serve_forever() returns only by cancellation: start_server_async catches
\* CancelledError and returns, and start() goes on to its next line.
AppServeCancelled ==
    /\ app.pc = "serving"
    /\ app' = [app EXCEPT !.pc = "rm"]
    /\ UNCHANGED <<links, connections, exec_running, tasks, objs, calls, mons, handlers,
                 scan, wire, disc, inflight, stopped, query>>

\* self.resource_manager = ResourceManager(...).
AppResourceManager ==
    /\ app.pc = "rm"
    /\ app' = [app EXCEPT !.pc = "executor", !.rm = TRUE]
    /\ UNCHANGED <<links, connections, exec_running, tasks, objs, calls, mons, handlers,
                 scan, wire, disc, inflight, stopped, query>>

\* await executor.start(): _running is set and the coroutine awaits
\* _listen_for_tasks.
AppExecutor ==
    /\ app.pc = "executor"
    /\ exec_running' = TRUE
    /\ app' = [app EXCEPT !.pc = "listening"]
    /\ UNCHANGED <<links, connections, tasks, objs, calls, mons, handlers,
                 scan, wire, disc, inflight, stopped, query>>

\* _listen_for_tasks leaves its while loop when _running is False, and
\* executor.start() returns; _connect_to_discovered_nodes takes its copy of
\* the discovered nodes.
AppListenReturns ==
    /\ app.pc = "listening"
    /\ ~exec_running
    /\ app' = [app EXCEPT !.pc = "connect", !.todo = disc.nodes]
    /\ UNCHANGED <<links, connections, exec_running, tasks, objs, calls, mons, handlers,
                 scan, wire, disc, inflight, stopped, query>>

\* One turn of the loop of _connect_to_discovered_nodes on node n: the node's
\* own hostname is skipped; for any other node connect_to_node opens the link
\* and writes the handshake (a send error is logged and swallowed), or
\* open_connection raises and it returns False.
AppConnectOpen(n, opened, sendok) ==
    /\ app.pc = "connect"
    /\ n \in app.todo
    /\ IF n[1] = SelfHost
       THEN /\ app' = [app EXCEPT !.todo = @ \ {n}]
            /\ UNCHANGED links
       ELSE IF opened
       THEN /\ links' = Append(links,
                          NewLink("out", n[1], "wait_reply",
                                  IF sendok THEN "handshake" ELSE "failed", sendok))
            /\ app' = [app EXCEPT !.todo = @ \ {n}, !.tried = @ \cup {n},
                                  !.pc = "await_connect"]
       ELSE /\ app' = [app EXCEPT !.todo = @ \ {n}, !.tried = @ \cup {n}]
            /\ UNCHANGED links
    /\ UNCHANGED <<connections, exec_running, tasks, objs, calls, mons, handlers,
                 scan, wire, disc, inflight, stopped, query>>

\* connect_to_node returned: the loop goes to its next node.
AppConnectDone ==
    /\ app.pc = "await_connect"
    /\ links[Len(links)].st = "done"
    /\ app' = [app EXCEPT !.pc = "connect"]
    /\ UNCHANGED <<links, connections, exec_running, tasks, objs, calls, mons, handlers,
                 scan, wire, disc, inflight, stopped, query>>

\* The loop is over: start() creates the CLI and calls cli.run.
AppCli ==
    /\ app.pc = "connect"
    /\ app.todo = {}
    /\ app' = [app EXCEPT !.pc = "cli"]
    /\ UNCHANGED <<links, connections, exec_running, tasks, objs, calls, mons, handlers,
                 scan, wire, disc, inflight, stopped, query>>

\* The steps of start() that need nothing from outside the process.
AppStep ==
    \/ AppDiscovery
    \/ \E bound \in BOOLEAN : AppServe(bound)
    \/ AppResourceManager
    \/ AppExecutor
    \/ AppListenReturns
    \/ \E n \in app.todo, opened, sendok \in BOOLEAN : AppConnectOpen(n, opened, sendok)
    \/ AppConnectDone
    \/ AppCli

\* await asyncio.sleep(0.1) after the for loop, then the while test again.
ScanSleep ==
    /\ scan.pc = "at" /\ scan.i > Len(scan.snap)
    /\ scan' = ScanTop
    /\ UNCHANGED <<links, connections, exec_running, tasks, objs, calls, mons, handlers,
                 wire, disc, inflight, stopped, query, app>>

Next ==
    \/ \E h \in Hosts, ok \in BOOLEAN : ConnectOpen(h, ok)
    \/ \E l \in LinkIds, f \in FirstFrames : ConnectReply(l, f)
    \/ AcceptConn
    \/ \E l \in LinkIds, f \in FirstFrames : AcceptFirst(l, f)
    \/ \E l \in LinkIds : AcceptReply(l)
    \/ \E l \in LinkIds : AcceptClose(l)
    \/ Stop
    \/ \E l \in LinkIds : LinkFail(l)
    \/ \E req \in Reqs : SubmitBegin(req)
    \/ \E t \in 1..Len(calls) : SubmitInstall(t)
    \/ \E t \in 1..Len(calls) : ScheduleTask(t)
    \/ \E t \in 1..Len(calls) : AssignSend(t)
    \/ \E t \in 1..Len(calls) : AssignSetRunning(t)
    \/ \E t \in 1..Len(calls) : AssignSetNode(t)
    \/ \E t \in 1..Len(mons) : MonitorStart(t)
    \/ \E t \in 1..Len(mons) : MonitorPoll(t)
    \/ \E t \in 1..Len(mons) : MonitorRecv(t)
    \/ \E l \in LinkIds : \E i \in 1..Len(links[l].outq), st \in {"completed", "failed"} :
          WorkerFinish(l, i, st)
    \/ \E l \in LinkIds : \E i \in 1..Len(links[l].outq) : WorkerAck(l, i)
    \/ ExecutorStart
    \/ \E l \in LinkIds : ListenMalformed(l)
    \/ \E l \in LinkIds : ListenRecv(l)
    \/ \E l \in LinkIds, fn \in FnNames, kw \in BOOLEAN, req \in Reqs : PeerTask(l, fn, kw, req)
    \/ \E l \in LinkIds : ListenTask(l)
    \/ \E h \in 1..Len(handlers), usage \in UsageSet : HandleStart(h, usage)
    \/ \E h \in 1..Len(handlers), o \in Outcomes : HandleFinish(h, o)
    \/ ScanSnapshot
    \/ ScanSkip
    \/ ScanRead
    \/ ScanAck
    \/ ScanSleep
    \/ \E w \in ThreadWriters, whole \in BOOLEAN : ThreadSend(w, whole)
    \/ \E w \in ThreadWriters : ThreadSendRest(w)
    \/ \E whole \in BOOLEAN : LoopWrite(whole)
    \/ LoopFlush
    \/ DiscStart
    \/ DiscStop
    \/ \E i \in ThreadIds, ok \in BOOLEAN : BroadcastSend(i, ok)
    \/ \E i \in ThreadIds : BroadcastWait(i)
    \/ \E i \in ThreadIds : ListenBind(i)
    \/ \E i \in ThreadIds : ListenLoop(i)
    \/ \E i \in ThreadIds, d \in Datagrams : ListenDatagram(i, d)
    \/ \E id \in 0..MaxCalls : GetTaskStatus(id)
    \/ GetAllTasks
    \/ ExecutorStop
    \/ \E i \in ThreadIds : ListenOwnDatagram(i)
    \/ AppDiscovery
    \/ \E bound \in BOOLEAN : AppServe(bound)
    \/ AppServeCancelled
    \/ AppResourceManager
    \/ AppExecutor
    \/ AppListenReturns
    \/ \E n \in app.todo, opened, sendok \in BOOLEAN : AppConnectOpen(n, opened, sendok)
    \/ AppConnectDone
    \/ AppCli

Spec == Init /\ [][Next]_vars

\* ------------------------------------------------------ specifications
\* The ConnectionManager alone: every handshake outcome on MaxLinks links.
NextConn ==
    \/ \E h \in Hosts, ok \in BOOLEAN : ConnectOpen(h, ok)
    \/ \E l \in LinkIds, f \in FirstFrames : ConnectReply(l, f)
    \/ AcceptConn
    \/ \E l \in LinkIds, f \in FirstFrames : AcceptFirst(l, f)
    \/ \E l \in LinkIds : AcceptReply(l)
    \/ \E l \in LinkIds : AcceptClose(l)
    \/ Stop
    \/ \E l \in LinkIds : LinkFail(l)

SpecConn == Init /\ [][NextConn]_vars

\* The handshakes of a peer that follows the protocol.
Handshakes == {f \in FirstFrames : f.kind = "handshake" /\ f.host # NoHost}

\* submit_task on MaxCalls threads against a peer table that changes under
\* it: outbound connections to peers that follow the protocol, the executor
\* read loop and stop().
NextSched ==
    \/ \E h \in Hosts : ConnectOpen(h, TRUE)
    \/ \E l \in LinkIds, f \in Handshakes : ConnectReply(l, f)
    \/ Stop
    \/ \E req \in Reqs : SubmitBegin(req)
    \/ \E t \in 1..Len(calls) : SubmitInstall(t)
    \/ \E t \in 1..Len(calls) : ScheduleTask(t)
    \/ \E t \in 1..Len(calls) : AssignSend(t)
    \/ \E t \in 1..Len(calls) : AssignSetRunning(t)
    \/ \E t \in 1..Len(calls) : AssignSetNode(t)
    \/ ExecutorStart
    \/ \E l \in LinkIds : ListenMalformed(l)

SpecSched == Init /\ [][NextSched]_vars

\* The task exchange: submit_task, the monitors and the executor read loop of
\* this node, and the worker at the far end of MaxTaskLinks outbound links.
NextTask ==
    \/ \E h \in Hosts : Len(links) < MaxTaskLinks /\ ConnectOpen(h, TRUE)
    \/ \E l \in LinkIds, f \in Handshakes : ConnectReply(l, f)
    \/ \E l \in LinkIds : LinkFail(l)
    \/ \E req \in Reqs : SubmitBegin(req)
    \/ \E t \in 1..Len(calls) : SubmitInstall(t)
    \/ \E t \in 1..Len(calls) : ScheduleTask(t)
    \/ \E t \in 1..Len(calls) : AssignSend(t)
    \/ \E t \in 1..Len(calls) : AssignSetRunning(t)
    \/ \E t \in 1..Len(calls) : AssignSetNode(t)
    \/ \E t \in 1..Len(mons) : MonitorStart(t)
    \/ \E t \in 1..Len(mons) : MonitorPoll(t)
    \/ \E t \in 1..Len(mons) : MonitorRecv(t)
    \/ \E l \in LinkIds : \E i \in 1..Len(links[l].outq), st \in {"completed", "failed"} :
          WorkerFinish(l, i, st)
    \/ \E l \in LinkIds : \E i \in 1..Len(links[l].outq) : WorkerAck(l, i)
    \/ ExecutorStart
    \/ \E l \in LinkIds : ListenMalformed(l)
    \/ \E l \in LinkIds : ListenRecv(l)

SpecTask == Init /\ [][NextTask]_vars

\* The monitors against a link that goes away: the peer dies (LinkFail) or
\* stop() closes the writers and clears the table, on MaxTaskLinks links and
\* with no reply from the worker.
NextMon ==
    \/ \E h \in Hosts : Len(links) < MaxTaskLinks /\ ConnectOpen(h, TRUE)
    \/ \E l \in LinkIds, f \in Handshakes : ConnectReply(l, f)
    \/ \E l \in LinkIds : LinkFail(l)
    \/ Stop
    \/ \E req \in Reqs : SubmitBegin(req)
    \/ \E t \in 1..Len(calls) : SubmitInstall(t)
    \/ \E t \in 1..Len(calls) : ScheduleTask(t)
    \/ \E t \in 1..Len(calls) : AssignSend(t)
    \/ \E t \in 1..Len(calls) : AssignSetRunning(t)
    \/ \E t \in 1..Len(calls) : AssignSetNode(t)
    \/ \E t \in 1..Len(mons) : MonitorStart(t)
    \/ \E t \in 1..Len(mons) : MonitorPoll(t)
    \/ \E t \in 1..Len(mons) : MonitorRecv(t)

SpecMon == Init /\ [][NextMon]_vars

\* This node as a worker: a peer connected on MaxTaskLinks links sends
\* MaxFrames task frames, the executor read loop dispatches them and the
\* _handle_task coroutines answer them.
NextExec ==
    \/ \E h \in Hosts : Len(links) < MaxTaskLinks /\ ConnectOpen(h, TRUE)
    \/ \E l \in LinkIds, f \in Handshakes : ConnectReply(l, f)
    \/ \E l \in LinkIds : LinkFail(l)
    \/ ExecutorStart
    \/ \E l \in LinkIds : ListenMalformed(l)
    \/ \E l \in LinkIds, fn \in FnNames, kw \in BOOLEAN, req \in Reqs : PeerTask(l, fn, kw, req)
    \/ \E l \in LinkIds : ListenTask(l)
    \/ \E h \in 1..Len(handlers), usage \in UsageSet : HandleStart(h, usage)
    \/ \E h \in 1..Len(handlers), o \in Outcomes : HandleFinish(h, o)

SpecExec == Init /\ [][NextExec]_vars

\* The read loop followed record by record: peers on MaxLinks outbound links,
\* each of which may send task frames or stay silent.  The loop is an asyncio
\* task: it takes its next step whenever that step is possible.
NextListen ==
    \/ \E h \in Hosts : ConnectOpen(h, TRUE)
    \/ \E l \in LinkIds, f \in Handshakes : ConnectReply(l, f)
    \/ \E l \in LinkIds : LinkFail(l)
    \/ ExecutorStart
    \/ \E l \in LinkIds : PeerTask(l, "example_task", FALSE, <<0, 0>>)
    \/ ScanSnapshot
    \/ ScanSkip
    \/ ScanRead
    \/ ScanSleep

SpecListen ==
    /\ Init /\ [][NextListen]_vars
    /\ WF_vars(ScanSnapshot) /\ WF_vars(ScanSkip) /\ WF_vars(ScanRead) /\ WF_vars(ScanSleep)

\* The writers of one peer link: the scheduler thread, a monitor thread and
\* the executor's coroutines each write MaxWrites frames on it.
NextWire ==
    \/ \E h \in Hosts : Len(links) < MaxTaskLinks /\ ConnectOpen(h, TRUE)
    \/ \E l \in LinkIds, f \in Handshakes : ConnectReply(l, f)
    \/ \E w \in ThreadWriters, whole \in BOOLEAN : ThreadSend(w, whole)
    \/ \E w \in ThreadWriters : ThreadSendRest(w)
    \/ \E whole \in BOOLEAN : LoopWrite(whole)
    \/ LoopFlush

SpecWire == Init /\ [][NextWire]_vars

\* NodeDiscovery: start() and stop() called in any order, the threads they
\* created and the datagrams that arrive.  Every thread that can take a step
\* on its own takes it; no datagram has to arrive.
NextDisc ==
    \/ DiscStart
    \/ DiscStop
    \/ \E i \in ThreadIds, ok \in BOOLEAN : BroadcastSend(i, ok)
    \/ \E i \in ThreadIds : BroadcastWait(i)
    \/ \E i \in ThreadIds : ListenBind(i)
    \/ \E i \in ThreadIds : ListenLoop(i)
    \/ \E i \in ThreadIds, d \in Datagrams : ListenDatagram(i, d)

SpecDisc ==
    /\ Init /\ [][NextDisc]_vars
    /\ \A i \in ThreadIds : WF_vars(ThreadStep(i))

\* Peer selection: submit_task up to the choice of a node, against a peer
\* table of outbound links whose records the read loop may flag not live.
NextPick ==
    \/ \E h \in Hosts : ConnectOpen(h, TRUE)
    \/ \E l \in LinkIds, f \in Handshakes : ConnectReply(l, f)
    \/ ExecutorStart
    \/ \E l \in LinkIds : ListenMalformed(l)
    \/ \E req \in Reqs : SubmitBegin(req)
    \/ \E t \in 1..Len(calls) : SubmitInstall(t)
    \/ \E t \in 1..Len(calls) : ScheduleTask(t)

SpecPick == Init /\ [][NextPick]_vars

\* The task table: submit_task on MaxCalls threads, and the user asking for
\* the status of ids that are and are not in the table.
NextTable ==
    \/ \E req \in Reqs : SubmitBegin(req)
    \/ \E t \in 1..Len(calls) : SubmitInstall(t)
    \/ \E t \in 1..Len(calls) : ScheduleTask(t)
    \/ \E id \in 0..MaxCalls : GetTaskStatus(id)
    \/ GetAllTasks

SpecTable == Init /\ [][NextTable]_vars

\* The executor's in-flight map: peers on MaxLinks links send task frames
\* numbered from task_0, the read loop dispatches them, and the executor is
\* started and stopped.
NextInflight ==
    \/ \E h \in Hosts : ConnectOpen(h, TRUE)
    \/ \E l \in LinkIds, f \in Handshakes : ConnectReply(l, f)
    \/ ExecutorStart
    \/ ExecutorStop
    \/ \E l \in LinkIds : PeerTask(l, "example_task", FALSE, <<0, 0>>)
    \/ \E l \in LinkIds : ListenTask(l)
    \/ \E h \in 1..Len(handlers) : HandleStart(h, [cpu |-> 10, mem |-> 10])
    \/ \E h \in 1..Len(handlers) : HandleFinish(h, "return")

SpecInflight == Init /\ [][NextInflight]_vars

\* ---------------------------------------------------------------- claims
\* C1: the status get_task_status reports for a task id only moves
\* pending -> running -> {completed, failed} or pending -> failed: every step
\* of submit_task, scheduling, assignment and the monitors leaves it as it is
\* or takes one of these moves.
C1_StatusMonotonic ==
    [][\A i \in 1..Len(tasks) :
          \/ objs'[tasks'[i]].status = StatusOf(i)
          \/ StatusOf(i) = "pending" /\ objs'[tasks'[i]].status \in {"running", "failed"}
          \/ StatusOf(i) = "running" /\ objs'[tasks'[i]].status \in {"completed", "failed"}]_vars

\* C2: a task whose ids do not collide and whose record reached completed
\* holds the value the handler returned for that task's own argument.
C2_CompletedWithHandlerValue ==
    (\A s, t \in 1..Len(calls) : s # t => calls[s].task_id # calls[t].task_id)
        => \A o \in 1..Len(objs) :
              objs[o].status = "completed" => objs[o].result = example_task(objs[o].arg)

\* C3: the terminal task_status frame that ended a monitor's loop, and so set
\* the task's status and result, carries the task_id of that monitor's task.
C3_OwnTerminalFrame ==
    \A t \in 1..Len(mons) : mons[t].got # None => mons[t].got = calls[t].task_id

\* C4: two submit_task calls never hold the same task id, and the table entry
\* a call installed still holds that call's Task.
C4_UniqueTaskIds ==
    /\ \A s, t \in 1..Len(calls) : s # t => calls[s].task_id # calls[t].task_id
    /\ \A t \in 1..Len(calls) :
          calls[t].pc # "install" => tasks[calls[t].task_id + 1] = t

\* C5: whenever _assign_task_to_node sends the task frame, the record it sends
\* on is flagged live and its cached cpu and memory plus the task's
\* requirements are within the limit.
C5_SendOnlyToFittingPeer ==
    [][\A t \in 1..Len(calls) :
          (calls[t].pc = "assign" /\ calls'[t].pc = "set_running")
              => Fits(Lookup(calls[t].node),
                      objs[calls'[t].obj].cpu, objs[calls'[t].obj].mem)]_vars

\* C6: no Task has its frame written twice (so no Task gets two monitors), and
\* once an assignment is through the Task is no longer pending and its
\* assigned_node is the chosen hostname.
C6_OneFramePerTask ==
    /\ \A s, t \in 1..Len(calls) :
          (/\ s # t
           /\ calls[s].pc \in {"set_running", "set_node", "assigned"}
           /\ calls[t].pc \in {"set_running", "set_node", "assigned"})
              => calls[s].obj # calls[t].obj
    /\ \A t \in 1..Len(calls) :
          calls[t].pc = "assigned"
              => /\ objs[calls[t].obj].status # "pending"
                 /\ objs[calls[t].obj].assigned_node = calls[t].node

\* C7: a Task for which a scheduling pass found no node is pending with no
\* assigned node in every later state.
C7_NoNodeStaysPending ==
    \A t \in 1..Len(calls) :
        calls[t].pc = "no_node"
            => /\ objs[calls[t].obj].status = "pending"
               /\ objs[calls[t].obj].assigned_node = NoHost

\* C8: in every state get_task_status can observe, a pending task has no
\* assigned node and no result, and a running task has an assigned node.
C8_TaskFieldsConsistent ==
    \A i \in 1..Len(tasks) :
        /\ StatusOf(i) = "pending"
              => /\ objs[tasks[i]].assigned_node = NoHost
                 /\ objs[tasks[i]].result = None
        /\ StatusOf(i) = "running" => objs[tasks[i]].assigned_node # NoHost

C10_ReplacedTransportClosed ==
    /\ \A i, j \in 1..Len(connections) :
          i # j => links[connections[i]].host # links[connections[j]].host
    /\ \A l \in LinkIds :
          (links[l].st = "done" /\ Handshaken(l) /\ links[l].open) => InTable(l)

\* C11: when connect_to_node has returned False (the reply was absent or was
\* not a handshake) the link it opened is closed and is not in the peer
\* table; when it has returned True its link read a handshake.
C11_FalseLeaksNothing ==
    \A l \in LinkIds :
        (links[l].dir = "out" /\ links[l].st = "done" /\ ~Handshaken(l))
            => ~links[l].open /\ ~InTable(l)

\* C12: a record of the peer table that the accept path installed, whose link
\* has had no transport error, owns a transport the local node has not closed.
C12_AcceptedLinkStaysOpen ==
    \A i \in 1..Len(connections) :
        (/\ links[connections[i]].dir = "in"
         /\ links[connections[i]].active
         /\ links[connections[i]].alive)
            => links[connections[i]].open

\* C13: a step that empties a non-empty peer table (stop()) leaves the writer
\* of every record the table held closed.
C13_StopClosesEveryWriter ==
    [][(connections # <<>> /\ connections' = <<>>)
          => \A l \in LinkIds : InTable(l) => ~links'[l].open]_vars

\* stop() has returned after closing the writers of two records that
\* connect_to_node installed.
C13_Witness ==
    /\ connections = <<>>
    /\ \E k, l \in LinkIds :
          /\ k # l
          /\ links[k].dir = "out" /\ links[l].dir = "out"
          /\ Handshaken(k) /\ Handshaken(l)
          /\ ~links[k].open /\ ~links[l].open

\* C14: a record of the peer table on whose link a write of the local node
\* has failed has its liveness flag cleared.
C14_FailedLinkNotLive ==
    \A i \in 1..Len(connections) :
        links[connections[i]].first_wr = "failed" => ~links[connections[i]].active

\* C15: with distinct task ids, a task whose monitor has ended (returned or
\* raised) is not running: a monitor never ends and leaves its task running,
\* so a running task whose link is gone is failed by its monitor.
C15_MonitorEndsTaskNotRunning ==
    (\A s, t \in 1..Len(calls) : s # t => calls[s].task_id # calls[t].task_id)
        => \A t \in 1..Len(mons) :
              mons[t].pc \in {"done", "raised"}
                  => objs[calls[t].obj].status # "running"

\* C16: with distinct task ids, once the monitor of a task has read the
\* worker's failed reply for that task, the task is failed and the dict
\* get_task_status returns for it carries the error text of the reply.
C16_ErrorTextKept ==
    (\A s, t \in 1..Len(calls) : s # t => calls[s].task_id # calls[t].task_id)
        => \A t \in 1..Len(mons) :
              (/\ mons[t].got = calls[t].task_id
               /\ objs[calls[t].obj].status = "failed")
                  => /\ "error" \in DOMAIN get_task_status(calls[t].task_id + 1)
                     /\ get_task_status(calls[t].task_id + 1).error = "Insufficient resources"

C18_ReplyReflectsHandler ==
    \A h \in 1..Len(handlers) :
        (/\ handlers[h].pc = "done"
         /\ handlers[h].frame.fn \in Registered
         /\ is_resource_available(handlers[h].usage, handlers[h].frame.cpu,
                                  handlers[h].frame.mem))
            => /\ handlers[h].invoked
               /\ handlers[h].outcome = "raise"
                     => /\ handlers[h].reply.status = "failed"
                        /\ handlers[h].reply.err = "handler raised"
               /\ handlers[h].outcome = "return"
                     => /\ handlers[h].reply.status = "completed"
                        /\ handlers[h].reply.val = example_task(handlers[h].frame.arg)

\* C19: once the _handle_task of a task frame has ended, and the link the
\* frame came on is open and has not failed, exactly one terminal task_status
\* frame for that task_id has been written on the link.
C19_ExactlyOneReply ==
    \A h \in 1..Len(handlers) :
        (/\ handlers[h].pc = "done"
         /\ links[handlers[h].link].open /\ links[handlers[h].link].alive)
            => Cardinality({i \in 1..Len(links[handlers[h].link].outq) :
                   /\ links[handlers[h].link].outq[i].type = "task_status"
                   /\ links[handlers[h].link].outq[i].task_id = handlers[h].frame.task_id
                   /\ links[handlers[h].link].outq[i].status \in {"completed", "failed"}}) = 1

C21_EveryFrameConsumed ==
    \A l \in 1..MaxLinks :
        (/\ l \in LinkIds /\ exec_running /\ InTable(l)
         /\ links[l].active /\ links[l].alive /\ RecvReady(l)
         /\ Len(links) = MaxLinks
         /\ \A k, m \in LinkIds : k # m => links[k].host # links[m].host)
            ~> (/\ l \in LinkIds
                /\ ~RecvReady(l) \/ ~links[l].alive \/ ~links[l].active \/ ~InTable(l))

\* C22: on the socket of a peer link the two pieces of every frame are next to
\* each other: a first piece that is not the last thing written is followed
\* by the second piece of the same frame, and every second piece follows its
\* first piece.
C22_FramesContiguous ==
    \A i \in 1..Len(wire.bytes) :
        /\ (wire.bytes[i][3] = 1 /\ i < Len(wire.bytes))
              => wire.bytes[i + 1] = <<wire.bytes[i][1], wire.bytes[i][2], 2>>
        /\ wire.bytes[i][3] = 2
              => i > 1 /\ wire.bytes[i - 1] = <<wire.bytes[i][1], wire.bytes[i][2], 1>>

\* C23: as long as stop() was never called, however often start() was called,
\* at most one broadcaster thread is in its loop and at most one listener
\* thread holds the port.
C23_StartIdempotent ==
    disc.stops = 0
        => /\ Cardinality({i \in 1..Len(disc.threads) :
                  disc.threads[i].kind = "broadcaster" /\ Alive(disc.threads[i])}) <= 1
           /\ Cardinality({i \in 1..Len(disc.threads) : Bound(disc.threads[i])}) <= 1

\* C24: every thread that was in its loop when stop() was called eventually
\* leaves it, whether or not a datagram arrives and whether or not start()
\* is called again.
C24_StoppedLoopsEnd ==
    \A i \in ThreadIds :
        (i <= Len(disc.threads) /\ disc.threads[i].marked)
            ~> (i <= Len(disc.threads) /\ ~Alive(disc.threads[i]))

\* C25: a discovery loop ends only through its while test finding _running
\* False: a send error or a malformed datagram does not end it.
C25_ErrorsKeepLoop ==
    \A i \in 1..Len(disc.threads) :
        disc.threads[i].pc = "ended" => disc.threads[i].why = "stop"

\* C26: the hostname a scheduling pass gets from _find_available_node is that
\* of a record that is flagged live and passes both capacity checks while no
\* record before it in table order does; it gets none exactly when no record
\* of the table is live and passes.
C26_FirstFit ==
    [][\A t \in 1..Len(calls) :
          (calls[t].pc = "schedule" /\ calls'[t].pc \in {"assign", "no_node"})
              => LET cpu == objs[calls'[t].obj].cpu
                     mem == objs[calls'[t].obj].mem
                     n == calls'[t].node
                 IN /\ n = NoHost
                          <=> \A i \in 1..Len(connections) : ~Fits(connections[i], cpu, mem)
                    /\ n # NoHost
                          => \E i \in 1..Len(connections) :
                                /\ links[connections[i]].host = n
                                /\ Fits(connections[i], cpu, mem)
                                /\ \A j \in 1..(i - 1) : ~Fits(connections[j], cpu, mem)]_vars

\* A pass chose the second record of the table because the first does not
\* pass, and another pass chose the first of two records that both pass.
C26_Witness ==
    /\ Len(connections) = 2
    /\ \E t \in 1..Len(calls) :
          /\ calls[t].pc = "assign"
          /\ calls[t].node = links[connections[2]].host
          /\ ~Fits(connections[1], objs[calls[t].obj].cpu, objs[calls[t].obj].mem)
          /\ Fits(connections[2], objs[calls[t].obj].cpu, objs[calls[t].obj].mem)
    /\ \E t \in 1..Len(calls) :
          /\ calls[t].pc = "assign"
          /\ calls[t].node = links[connections[1]].host
          /\ Fits(connections[1], objs[calls[t].obj].cpu, objs[calls[t].obj].mem)
          /\ Fits(connections[2], objs[calls[t].obj].cpu, objs[calls[t].obj].mem)

\* C27: no step takes a key or a task out of the task table (every entry
\* keeps the Task that was installed under it); a status query leaves the
\* table and every task record as they are and returns None exactly for an
\* id that is not a key of the table; and the id of every submit_task call
\* that is past its install is a key of the table.
C27_TableOnlyGrows ==
    [][/\ Len(tasks') >= Len(tasks)
       /\ \A i \in 1..Len(tasks) : tasks'[i] = tasks[i]
       /\ query' # query
             => /\ tasks' = tasks /\ objs' = objs
                /\ query'.op = "get_task_status"
                      => (query'.res = <<>> <=> query'.id >= Len(tasks))
                /\ query'.op = "get_all_tasks" => Len(query'.res) = Len(tasks)
       /\ \A t \in 1..Len(calls') :
             calls'[t].pc # "install" => calls'[t].task_id < Len(tasks')]_vars

\* C28: after every step, each _handle_task coroutine that has been created
\* and has not finished is in _tasks under its task id; and a step that is
\* TaskExecutor.stop() leaves no unfinished coroutine and an empty _tasks.
C28_UnfinishedInMap ==
    [][/\ \A h \in 1..Len(handlers') :
             handlers'[h].pc \in {"start", "running"}
                 => <<handlers'[h].frame.task_id, h>> \in inflight'
       /\ (exec_running /\ ~exec_running')
             => /\ inflight' = {}
                /\ \A h \in 1..Len(handlers') :
                      handlers'[h].pc \notin {"start", "running"}]_vars

\* C29: whenever the executor's read loop takes a task_status frame off a
\* link and writes an acknowledged frame in answer, the frame it took was a
\* status poll (it carried no status), not a reply.
C29_AckOnlyPolls ==
    [][\A l \in LinkIds :
          (/\ links[l].inq # <<>>
           /\ links'[l].inq = Tail(links[l].inq)
           /\ links'[l].outq = Append(links[l].outq, AckFrame(Head(links[l].inq).task_id)))
              => Head(links[l].inq).status = "none"]_vars

\* C30: once ConnectionManager.stop() has returned, the peer table is empty
\* in every later state.
C30_StoppedStaysEmpty ==
    stopped => connections = <<>>

\* Intrascale.start(): its steps, the discovery threads it started, the
\* datagrams that arrive, the replies of the peers it connects to, and what
\* only another task can do: cancel the server, stop the executor.  Every
\* step of start() and of the threads that can be taken is taken, and every
\* peer answers or closes.
NextApp ==
    \/ AppDiscovery
    \/ \E bound \in BOOLEAN : AppServe(bound)
    \/ AppServeCancelled
    \/ AppResourceManager
    \/ AppExecutor
    \/ ExecutorStop
    \/ AppListenReturns
    \/ \E n \in app.todo, opened, sendok \in BOOLEAN : AppConnectOpen(n, opened, sendok)
    \/ \E l \in 1..MaxLinks, f \in FirstFrames : ConnectReply(l, f)
    \/ AppConnectDone
    \/ AppCli
    \/ \E i \in ThreadIds, ok \in BOOLEAN : BroadcastSend(i, ok)
    \/ \E i \in ThreadIds : BroadcastWait(i)
    \/ \E i \in ThreadIds : ListenBind(i)
    \/ \E i \in ThreadIds : ListenLoop(i)
    \/ \E i \in ThreadIds, d \in Datagrams : ListenDatagram(i, d)
    \/ \E i \in ThreadIds : ListenOwnDatagram(i)

SpecApp ==
    /\ Init /\ [][NextApp]_vars
    /\ WF_vars(AppStep)
    /\ WF_vars(\E l \in 1..MaxLinks, f \in FirstFrames : ConnectReply(l, f))
    /\ \A i \in ThreadIds : WF_vars(ThreadStep(i))

\* C31: once start() has started discovery and the connection server, it
\* eventually has created the resource manager, started the executor and
\* gone through the connect loop for every discovered node other than
\* itself; neither the server nor the executor holds it back.
C31_StartReachesEnd ==
    (app.pc = "serving") ~> (app.pc = "cli" /\ app.rm /\ app.todo = {})

====
